---- MODULE Spec2Model ----
(***************************************************************************)
(* Model of src/config/from_document.rs: the lowering of a parsed schema   *)
(* document (async_graphql ServiceDocument) into the Config value.         *)
(*                                                                         *)
(* Encoding of Rust values:                                                *)
(*   Option<T>        None is <<>>, Some(v) is <<v>>                       *)
(*   Result / Valid   [ok |-> TRUE, val |-> v] or                          *)
(*                    [ok |-> FALSE, errors |-> <<[message, trace], ...>>] *)
(*   BTreeMap<K, V>   sequence of [key, value] entries, ascending by key   *)
(*   Name / String    a natural number; string order is number order       *)
(*   Positioned<T>    the node itself (positions are never read)           *)
(***************************************************************************)
EXTENDS Naturals, Sequences, FiniteSets

VARIABLES doc, config, field_definition, field, pc

vars == <<doc, config, field_definition, field, pc>>

-----------------------------------------------------------------------------
(* Bounds of the explored inputs *)

\* longest list of definitions in a document
MaxDefs == 3
\* type names are 1..MaxName
MaxName == 2
\* longest directive list on a field
MaxDirs == 2
\* directive arguments decode to the values 1..MaxArg
MaxArg == 2
\* deepest nesting of list types
MaxDepth == 2

-----------------------------------------------------------------------------
(* Option and Valid *)

None == <<>>
Some(v) == <<v>>

Ok(v) == [ok |-> TRUE, val |-> v]

\* Valid::fail: a failure of one error with an empty trace
Valid_fail(message) == [ok |-> FALSE, errors |-> <<[message |-> message, trace |-> <<>>]>>]

\* Valid::trace: prepends the label to the trace of every error held
Valid_trace(valid, label) ==
  IF valid.ok THEN valid
  ELSE [ok |-> FALSE,
        errors |-> [i \in 1..Len(valid.errors) |->
                      [message |-> valid.errors[i].message,
                       trace |-> <<label>> \o valid.errors[i].trace]]]

\* Result::ok
Result_ok(valid) == IF valid.ok THEN Some(valid.val) ELSE None

\* Result::map(Some)
Result_map_Some(valid) == IF valid.ok THEN Ok(Some(valid.val)) ELSE valid

-----------------------------------------------------------------------------
(* DirectiveCodec *)

\* the argument list of a directive that its codec rejects
Malformed == 0

\* T::default()
T_default == 0

\* DirectiveCodec::from_directive: the value the arguments decode to, or a
\* failure attributable to the directive
from_directive(directive) ==
  IF directive.arguments = Malformed
  THEN Valid_trace(Valid_fail("invalid directive"), directive.name)
  ELSE Ok(directive.arguments)

-----------------------------------------------------------------------------
(* BTreeMap *)

BTreeMap_new == <<>>

BTreeMap_insert(map, k, v) ==
  SelectSeq(map, LAMBDA e : e.key < k)
    \o <<[key |-> k, value |-> v]>>
    \o SelectSeq(map, LAMBDA e : e.key > k)

Keys(map) == {map[i].key : i \in 1..Len(map)}

Get(map, k) == map[CHOOSE i \in 1..Len(map) : map[i].key = k].value

-----------------------------------------------------------------------------
(* Field and argument lowering *)

pos_name_to_string(pos) == pos

\* "".to_string()
EmptyString == 0

to_type_of(type_) ==
  IF ~type_.base.list THEN type_.base.name
  ELSE IF ~type_.base.ty.base.list THEN type_.base.ty.base.name
  ELSE EmptyString

RECURSIVE find_map_ok(_, _)
\* directives.iter().find_map(|d| if d.name == name { from_directive(d).ok() } else { None })
find_map_ok(directives, name) ==
  IF directives = <<>> THEN None
  ELSE LET found == IF Head(directives).name = name
                    THEN Result_ok(from_directive(Head(directives)))
                    ELSE None
       IN IF found # None THEN found ELSE find_map_ok(Tail(directives), name)

to_modify(directives) == find_map_ok(directives, "modify")

to_inline(directives) == find_map_ok(directives, "inline")

to_unsafe_operation(directives) == find_map_ok(directives, "unsafe")

to_batch(directives) == find_map_ok(directives, "groupBy")

to_const_field(directives) == find_map_ok(directives, "const")

RECURSIVE to_http(_)
to_http(directives) ==
  IF directives = <<>> THEN Ok(None)
  ELSE IF Head(directives).name = "http"
       THEN Result_map_Some(from_directive(Head(directives)))
       ELSE to_http(Tail(directives))

\* serde_json::to_value on a literal: a literal is <<j>> when it has the JSON
\* form j, and <<>> when it has none
serde_json_to_value(value) ==
  IF value = <<>> THEN Valid_fail("not serializable") ELSE Ok(value[1])

to_arg(input_value_definition) ==
  [type_of |-> to_type_of(input_value_definition.ty),
   list |-> input_value_definition.ty.base.list,
   required |-> ~input_value_definition.ty.nullable,
   doc |-> input_value_definition.description,
   modify |-> to_modify(input_value_definition.directives),
   default_value |-> IF input_value_definition.default_value # None
                     THEN Result_ok(serde_json_to_value(input_value_definition.default_value[1]))
                     ELSE None]

to_args(fd) ==
  LET args[i \in 0..Len(fd.arguments)] ==
        IF i = 0 THEN BTreeMap_new
        ELSE BTreeMap_insert(args[i - 1],
                             pos_name_to_string(fd.arguments[i].name),
                             to_arg(fd.arguments[i]))
  IN args[Len(fd.arguments)]

\* the struct literal of to_common_field, reached once `to_http(directives)?`
\* is evaluated: the failure of http is returned in its place
Field_of(type_of, list, required, list_type_required, args, doc_, modify, inline, http, unsafe_operation, group_by, const_field) ==
  IF ~http.ok THEN http
  ELSE Ok([type_of |-> type_of,
           list |-> list,
           required |-> required,
           list_type_required |-> list_type_required,
           args |-> args,
           doc |-> doc_,
           modify |-> modify,
           inline |-> inline,
           http |-> http.val,
           unsafe_operation |-> unsafe_operation,
           group_by |-> group_by,
           const_field |-> const_field])

\* to_common_field with list_type_required taken from the field's own
\* nullability instead of the element's
to_common_field_outer_nullability(type_, base, nullable, args, description, directives) ==
  Field_of(to_type_of(type_), base.list, ~nullable, base.list /\ ~nullable,
           args, description, to_modify(directives), to_inline(directives),
           to_http(directives), to_unsafe_operation(directives), to_batch(directives),
           to_const_field(directives))

to_common_field(type_, base, nullable, args, description, directives) ==
  Field_of(to_type_of(type_), base.list, ~nullable, base.list /\ ~base.ty.nullable,
           args, description, to_modify(directives), to_inline(directives),
           to_http(directives), to_unsafe_operation(directives), to_batch(directives),
           to_const_field(directives))

to_field(fd) ==
  to_common_field(fd.ty, fd.ty.base, fd.ty.nullable, to_args(fd),
                  fd.description, fd.directives)

to_input_object_field(fd) ==
  to_common_field(fd.ty, fd.ty.base, fd.ty.nullable, BTreeMap_new,
                  fd.description, fd.directives)

\* transform is the function F restricted to the fields given
to_fields_inner(fields, transform) ==
  LET parsed_fields[i \in 0..Len(fields)] ==
        IF i = 0 THEN Ok(BTreeMap_new)
        ELSE IF ~parsed_fields[i - 1].ok THEN parsed_fields[i - 1]
        ELSE LET field_ == transform[fields[i]]
             IN IF ~field_.ok THEN field_
                ELSE Ok(BTreeMap_insert(parsed_fields[i - 1].val,
                                        pos_name_to_string(fields[i].name),
                                        field_.val))
  IN parsed_fields[Len(fields)]

to_fields(fields) ==
  to_fields_inner(fields, [fd \in {fields[i] : i \in 1..Len(fields)} |-> to_field(fd)])

to_input_object_fields(input_object_fields) ==
  to_fields_inner(input_object_fields,
                  [fd \in {input_object_fields[i] : i \in 1..Len(input_object_fields)} |->
                     to_input_object_field(fd)])

-----------------------------------------------------------------------------
(* Type lowering *)

\* config::Type::default()
Type_default ==
  [fields |-> BTreeMap_new, doc |-> None, interface |-> FALSE,
   implements |-> <<>>, variants |-> None, scalar |-> FALSE]

\* to_scalar_type without the scalar flag
to_scalar_type_unflagged == Type_default

to_scalar_type == [Type_default EXCEPT !.scalar = TRUE]

\* `let fields = ...?;` followed by a struct literal holding the fields
Type_with_fields(fields_, type_) ==
  IF ~fields_.ok THEN fields_ ELSE Ok([type_ EXCEPT !.fields = fields_.val])

to_object_type(fields, description, interface, implements) ==
  Type_with_fields(to_fields(fields),
                   [Type_default EXCEPT !.doc = description,
                                        !.interface = interface,
                                        !.implements = implements])

to_enum(enum_type) == [Type_default EXCEPT !.variants = Some(enum_type.values)]

to_input_object(input_object_type) ==
  Type_with_fields(to_input_object_fields(input_object_type.fields), Type_default)

to_union(union_type, doc_) == [types |-> union_type.members, doc |-> doc_]

\* the match of to_types with a union stored in the type table as well
to_type_opt_union_stored(type_definition) ==
  LET kind == type_definition.kind
  IN CASE kind.tag \in {"Object", "Interface"} ->
            Result_map_Some(to_object_type(kind.fields, type_definition.description,
                                           kind.tag = "Interface", kind.implements))
       [] kind.tag = "Enum" -> Ok(Some(to_enum(kind)))
       [] kind.tag = "InputObject" -> Result_map_Some(to_input_object(kind))
       [] kind.tag = "Union" -> Ok(Some(Type_default))
       [] kind.tag = "Scalar" -> Ok(Some(to_scalar_type))

\* the match of to_types with a scalar skipped like a union
to_type_opt_scalar_dropped(type_definition) ==
  LET kind == type_definition.kind
  IN CASE kind.tag \in {"Object", "Interface"} ->
            Result_map_Some(to_object_type(kind.fields, type_definition.description,
                                           kind.tag = "Interface", kind.implements))
       [] kind.tag = "Enum" -> Ok(Some(to_enum(kind)))
       [] kind.tag = "InputObject" -> Result_map_Some(to_input_object(kind))
       [] kind.tag \in {"Union", "Scalar"} -> Ok(None)

\* the match on type_definition.node.kind of to_types: a Valid of an Option
to_type_opt(type_definition) ==
  LET kind == type_definition.kind
  IN CASE kind.tag = "Object" ->
            Result_map_Some(to_object_type(kind.fields, type_definition.description,
                                           FALSE, kind.implements))
       [] kind.tag = "Interface" ->
            Result_map_Some(to_object_type(kind.fields, type_definition.description,
                                           TRUE, kind.implements))
       [] kind.tag = "Enum" -> Ok(Some(to_enum(kind)))
       [] kind.tag = "InputObject" -> Result_map_Some(to_input_object(kind))
       [] kind.tag = "Union" -> Ok(None)
       [] kind.tag = "Scalar" -> Ok(Some(to_scalar_type))

\* `if let Some(type_) = type_opt { types.insert(type_name, type_); }`, reached
\* once the match is evaluated: a failure in it is returned in its place
insert_type_opt(types, type_name, type_opt) ==
  IF ~type_opt.ok THEN type_opt
  ELSE IF type_opt.val # None
       THEN Ok(BTreeMap_insert(types.val, type_name, type_opt.val[1]))
       ELSE types

to_types(type_definitions) ==
  LET types[i \in 0..Len(type_definitions)] ==
        IF i = 0 THEN Ok(BTreeMap_new)
        ELSE IF ~types[i - 1].ok THEN types[i - 1]
        ELSE insert_type_opt(types[i - 1],
                             pos_name_to_string(type_definitions[i].name),
                             to_type_opt(type_definitions[i]))
  IN types[Len(type_definitions)]

to_union_types(type_definitions) ==
  LET unions[i \in 0..Len(type_definitions)] ==
        IF i = 0 THEN BTreeMap_new
        ELSE IF type_definitions[i].kind.tag = "Union"
             THEN BTreeMap_insert(unions[i - 1],
                                  pos_name_to_string(type_definitions[i].name),
                                  to_union(type_definitions[i].kind,
                                           type_definitions[i].description))
             ELSE unions[i - 1]
  IN unions[Len(type_definitions)]

-----------------------------------------------------------------------------
(* Root assembly *)

\* schema_definition without the trace of its failure
schema_definition_untraced(d) ==
  IF \E i \in 1..Len(d.definitions) : d.definitions[i].def = "Schema"
  THEN Ok(d.definitions[CHOOSE i \in 1..Len(d.definitions) :
                          /\ d.definitions[i].def = "Schema"
                          /\ \A j \in 1..(i - 1) : d.definitions[j].def # "Schema"])
  ELSE Valid_fail("schema not found")

schema_definition(d) ==
  IF \E i \in 1..Len(d.definitions) : d.definitions[i].def = "Schema"
  THEN Ok(d.definitions[CHOOSE i \in 1..Len(d.definitions) :
                          /\ d.definitions[i].def = "Schema"
                          /\ \A j \in 1..(i - 1) : d.definitions[j].def # "Schema"])
  ELSE Valid_trace(Valid_fail("schema not found"), "schema")

\* process_schema_directives that fails when the directive is absent
process_schema_directives_required(sd, directive_name) ==
  LET res[i \in 0..Len(sd.directives)] ==
        IF i = 0 THEN Valid_trace(Valid_fail("missing directive"), directive_name)
        ELSE IF sd.directives[i].name = directive_name
             THEN from_directive(sd.directives[i])
             ELSE res[i - 1]
  IN res[Len(sd.directives)]

process_schema_directives(sd, directive_name) ==
  LET res[i \in 0..Len(sd.directives)] ==
        IF i = 0 THEN Ok(T_default)
        ELSE IF sd.directives[i].name = directive_name
             THEN from_directive(sd.directives[i])
             ELSE res[i - 1]
  IN res[Len(sd.directives)]

server(sd) == process_schema_directives(sd, "server")

upstream(sd) == process_schema_directives(sd, "upstream")

to_root_schema(sd) ==
  [query |-> IF sd.query # None THEN Some(pos_name_to_string(sd.query[1])) ELSE None,
   mutation |-> IF sd.mutation # None THEN Some(pos_name_to_string(sd.mutation[1])) ELSE None,
   subscription |->
     IF sd.subscription # None THEN Some(pos_name_to_string(sd.subscription[1])) ELSE None]

\* the struct literal of graphql, reached once its `?` operands are evaluated
GraphQL_of(sd, types, unions) ==
  IF ~sd.ok THEN sd
  ELSE IF ~types.ok THEN types
  ELSE Ok([schema |-> to_root_schema(sd.val), types |-> types.val, unions |-> unions])

graphql(d) ==
  GraphQL_of(schema_definition(d),
             to_types(SelectSeq(d.definitions, LAMBDA def : def.def = "Type")),
             to_union_types(SelectSeq(d.definitions, LAMBDA def : def.def = "Type")))

\* the struct literal of from_document: its `?` operands in order, the first
\* failure among them returned
Config_of(server_, upstream_, graphql_) ==
  IF ~server_.ok THEN server_
  ELSE IF ~upstream_.ok THEN upstream_
  ELSE IF ~graphql_.ok THEN graphql_
  ELSE Ok([server |-> server_.val, upstream |-> upstream_.val, graphql |-> graphql_.val])

from_document(d) ==
  IF ~schema_definition(d).ok THEN schema_definition(d)
  ELSE Config_of(server(schema_definition(d).val),
                 upstream(schema_definition(d).val),
                 graphql(d))

\* impl TryFrom<ServiceDocument> for Config
try_from(value) == from_document(value)

-----------------------------------------------------------------------------
(* The parsed document: async_graphql::parser::types *)

Named(name) == [list |-> FALSE, name |-> name]

List(ty) == [list |-> TRUE, ty |-> ty]

Type(base, nullable) == [base |-> base, nullable |-> nullable]

ConstDirective(name, arguments) == [name |-> name, arguments |-> arguments]

FieldDefinition(name, ty, arguments, description, directives) ==
  [name |-> name, ty |-> ty, arguments |-> arguments,
   description |-> description, directives |-> directives]

InputValueDefinition(name, ty, default_value, description, directives) ==
  [name |-> name, ty |-> ty, default_value |-> default_value,
   description |-> description, directives |-> directives]

ObjectType(fields, implements) ==
  [tag |-> "Object", fields |-> fields, implements |-> implements]

InterfaceType(fields, implements) ==
  [tag |-> "Interface", fields |-> fields, implements |-> implements]

EnumType(values) == [tag |-> "Enum", values |-> values]

InputObjectType(fields) == [tag |-> "InputObject", fields |-> fields]

UnionType(members) == [tag |-> "Union", members |-> members]

Scalar == [tag |-> "Scalar"]

TypeDefinition(name, description, kind) ==
  [def |-> "Type", name |-> name, description |-> description, kind |-> kind]

SchemaDefinition(query, mutation, subscription, directives) ==
  [def |-> "Schema", query |-> query, mutation |-> mutation,
   subscription |-> subscription, directives |-> directives]

\* TypeSystemDefinition::Directive, a definition that is neither schema nor type
DirectiveDefinition == [def |-> "Directive"]

ServiceDocument(definitions) == [definitions |-> definitions]

-----------------------------------------------------------------------------
(* The inputs explored *)

Names == 1..MaxName

RECURSIVE TypesOfDepth(_)
TypesOfDepth(d) ==
  IF d = 0 THEN {Type(Named(n), b) : n \in Names, b \in BOOLEAN}
  ELSE LET inner == TypesOfDepth(d - 1)
       IN inner \cup {Type(List(t), b) : t \in inner, b \in BOOLEAN}

Types == TypesOfDepth(MaxDepth)

\* a nullable reference to the named type 1
PlainType == Type(Named(1), TRUE)

FieldDirectiveNames ==
  {"http", "modify", "inline", "unsafe", "groupBy", "const", "deprecated"}

FieldDirectives ==
  {ConstDirective(n, a) : n \in FieldDirectiveNames, a \in 0..MaxArg}

Arguments ==
  {InputValueDefinition(n, PlainType, dv, None, ds) :
     n \in 1..2,
     dv \in {None, Some(<<1>>), Some(<<>>)},
     ds \in {<<>>, <<ConstDirective("modify", Malformed)>>, <<ConstDirective("modify", 1)>>}}

PlainField(name) == FieldDefinition(name, PlainType, <<>>, None, <<>>)

DirectedField(name, directive, arguments) ==
  FieldDefinition(name, PlainType, <<>>, None, <<ConstDirective(directive, arguments)>>)

PlainInput(name) == InputValueDefinition(name, PlainType, None, None, <<>>)

PlainSchema == SchemaDefinition(Some(1), Some(2), None, <<>>)

\* one definition of every kind under every name
KindDefinitions ==
  {PlainSchema, DirectiveDefinition}
  \cup {TypeDefinition(n, d, k) :
          n \in Names, d \in {None},
          k \in {ObjectType(<<PlainField(1)>>, <<>>),
                 InterfaceType(<<PlainField(1)>>, <<2>>),
                 EnumType(<<2, 1>>),
                 InputObjectType(<<PlainInput(1)>>),
                 UnionType(<<2, 1>>),
                 Scalar}}

\* schema definitions and object types with valid and malformed directives
DirectiveDefinitions ==
  {SchemaDefinition(Some(1), None, None, ds) :
     ds \in {<<>>,
             <<ConstDirective("server", Malformed)>>,
             <<ConstDirective("upstream", Malformed)>>,
             <<ConstDirective("server", Malformed), ConstDirective("upstream", Malformed)>>,
             <<ConstDirective("server", 1), ConstDirective("upstream", 1)>>}}
  \cup {TypeDefinition(n, Some(1), ObjectType(fs, <<>>)) :
          n \in 1..2,
          fs \in {<<PlainField(1)>>,
                  <<DirectedField(1, "http", Malformed)>>,
                  <<DirectedField(1, "http", Malformed), DirectedField(2, "http", Malformed)>>,
                  <<DirectedField(1, "modify", Malformed)>>}}

-----------------------------------------------------------------------------
(* Specifications *)

\* a document is handed to Config::try_from
Init ==
  /\ \E k \in 0..MaxDefs :
       \/ \E ds \in [1..k -> KindDefinitions] : doc = Some(ServiceDocument(ds))
       \/ \E ds \in [1..k -> DirectiveDefinitions] : doc = Some(ServiceDocument(ds))
  /\ config = None
  /\ field_definition = None
  /\ field = None
  /\ pc = "start"

TryFrom ==
  /\ pc = "start"
  /\ doc # None
  /\ config' = Some(try_from(doc[1]))
  /\ pc' = "try_from"
  /\ UNCHANGED <<doc, field_definition, field>>

Next == TryFrom

Spec == Init /\ [][Next]_vars

\* a field definition is handed to to_field or to to_input_object_field
FieldInit ==
  /\ doc = None
  /\ config = None
  /\ \/ \E ty \in Types : \E d \in {None, Some(1)} :
          field_definition = Some(FieldDefinition(1, ty, <<>>, d, <<>>))
     \/ \E k \in 0..MaxDirs : \E ds \in [1..k -> FieldDirectives] :
          field_definition = Some(FieldDefinition(1, PlainType, <<>>, None, ds))
     \/ \E k \in 0..MaxDirs : \E as \in [1..k -> Arguments] :
          field_definition = Some(FieldDefinition(1, PlainType, as, None, <<>>))
  /\ field = None
  /\ pc = "start"

ToField ==
  /\ pc = "start"
  /\ field_definition # None
  /\ field' = Some(to_field(field_definition[1]))
  /\ pc' = "to_field"
  /\ UNCHANGED <<doc, config, field_definition>>

ToInputObjectField ==
  /\ pc = "start"
  /\ field_definition # None
  /\ field' = Some(to_input_object_field(field_definition[1]))
  /\ pc' = "to_input_object_field"
  /\ UNCHANGED <<doc, config, field_definition>>

FieldNext == ToField \/ ToInputObjectField

FieldSpec == FieldInit /\ [][FieldNext]_vars

-----------------------------------------------------------------------------
(* What the claims speak of *)

\* try_from has returned
Returned == pc = "try_from"

\* to_field or to_input_object_field has returned
Lowered == pc \in {"to_field", "to_input_object_field"}

Range(seq) == {seq[i] : i \in 1..Len(seq)}

HasSchema(d) == \E i \in 1..Len(d.definitions) : d.definitions[i].def = "Schema"

\* the schema definition lowered: the first one
FirstSchema(d) ==
  d.definitions[CHOOSE i \in 1..Len(d.definitions) :
                  /\ d.definitions[i].def = "Schema"
                  /\ \A j \in 1..(i - 1) : d.definitions[j].def # "Schema"]

TypeDefinitionsOf(d) == SelectSeq(d.definitions, LAMBDA x : x.def = "Type")

UnionsOf(d) == SelectSeq(TypeDefinitionsOf(d), LAMBDA x : x.kind.tag = "Union")

NonUnionsOf(d) == SelectSeq(TypeDefinitionsOf(d), LAMBDA x : x.kind.tag # "Union")

NamesOf(seq) == {seq[i].name : i \in 1..Len(seq)}

DistinctNames(seq) == \A i, j \in 1..Len(seq) : seq[i].name = seq[j].name => i = j

\* the last element of the sequence with the name
LastNamed(seq, n) ==
  seq[CHOOSE i \in 1..Len(seq) :
        /\ seq[i].name = n
        /\ \A j \in (i + 1)..Len(seq) : seq[j].name # n]

\* the field definitions of a type definition
FieldsOf(td) ==
  IF td.kind.tag \in {"Object", "Interface", "InputObject"} THEN td.kind.fields ELSE <<>>

Ascending(map) == \A i, j \in 1..Len(map) : i < j => map[i].key < map[j].key

AllAbsent(f) ==
  /\ f.modify = None
  /\ f.inline = None
  /\ f.http = None
  /\ f.unsafe_operation = None
  /\ f.group_by = None
  /\ f.const_field = None

-----------------------------------------------------------------------------
(* C7 *)

\* C7: a document without a schema definition, whatever else it holds, yields
\* exactly one error, "schema not found" traced to <<"schema">>, and no Config
C7_MissingSchemaIsFatal ==
  (Returned /\ ~HasSchema(doc[1])) =>
    config[1] = [ok |-> FALSE,
                 errors |-> <<[message |-> "schema not found", trace |-> <<"schema">>]>>]

\* a document of type definitions with a malformed directive and no schema
C7_Witness ==
  /\ Returned
  /\ ~HasSchema(doc[1])
  /\ \E i \in 1..Len(doc[1].definitions) :
       /\ doc[1].definitions[i].def = "Type"
       /\ \E f \in Range(FieldsOf(doc[1].definitions[i])) : f.directives # <<>>
  /\ ~config[1].ok

-----------------------------------------------------------------------------
(* C8 *)

\* C8: the lowered field has list iff the outer shape is a list, required iff
\* the outer type is non-null, list_type_required iff the outer shape is a list
\* of a non-null element, and type_of the named type, the element's named type
\* of a list, or the empty string for a list of lists
C8_NullabilityListOrthogonality ==
  (Lowered /\ field[1].ok) =>
    LET ty == field_definition[1].ty
        f == field[1].val
    IN /\ f.list <=> ty.base.list
       /\ f.required <=> ~ty.nullable
       /\ f.list_type_required <=> (ty.base.list /\ ~ty.base.ty.nullable)
       /\ ~ty.base.list => f.type_of = ty.base.name
       /\ (ty.base.list /\ ~ty.base.ty.base.list) => f.type_of = ty.base.ty.base.name
       /\ (ty.base.list /\ ty.base.ty.base.list) => f.type_of = EmptyString
       /\ ty = Type(List(Type(Named(1), FALSE)), FALSE) =>
            /\ f.type_of = 1
            /\ f.list
            /\ f.required
            /\ f.list_type_required
       /\ ty = Type(List(Type(Named(1), TRUE)), TRUE) =>
            /\ f.list
            /\ ~f.required
            /\ ~f.list_type_required

\* a nullable list of non-null elements has been lowered
C8_Witness ==
  /\ Lowered
  /\ field_definition[1].ty = Type(List(Type(Named(1), FALSE)), TRUE)
  /\ field[1].ok
  /\ field[1].val.list_type_required
  /\ ~field[1].val.required

-----------------------------------------------------------------------------
(* C9 *)

NoDirectiveNamed(sd, name) == \A i \in 1..Len(sd.directives) : sd.directives[i].name # name

NoDirectives(d) ==
  /\ FirstSchema(d).directives = <<>>
  /\ \A td \in Range(TypeDefinitionsOf(d)) : \A fd \in Range(FieldsOf(td)) : fd.directives = <<>>

\* C9: a field with an empty directive list lowers with modify, inline, http,
\* unsafe_operation, group_by and const_field all absent, a schema definition
\* without a server (upstream) directive yields the default Server (Upstream)
\* and no error of that directive, and a document without directives lowers
\* successfully
C9_DirectiveAbsenceIsNonFatal ==
  (Returned /\ HasSchema(doc[1])) =>
    LET d == doc[1]
        sd == FirstSchema(d)
        r == config[1]
    IN /\ NoDirectiveNamed(sd, "server") =>
            /\ r.ok => r.val.server = T_default
            /\ ~r.ok => \A e \in Range(r.errors) : e.trace # <<"server">>
       /\ NoDirectiveNamed(sd, "upstream") =>
            /\ r.ok => r.val.upstream = T_default
            /\ ~r.ok => \A e \in Range(r.errors) : e.trace # <<"upstream">>
       /\ NoDirectives(d) => r.ok
       /\ r.ok =>
            \A td \in Range(NonUnionsOf(d)) : \A fd \in Range(FieldsOf(td)) :
              (/\ td = LastNamed(NonUnionsOf(d), td.name)
               /\ fd = LastNamed(FieldsOf(td), fd.name)
               /\ fd.directives = <<>>)
              => AllAbsent(Get(Get(r.val.graphql.types, td.name).fields, fd.name))

\* a document without any directive has been lowered, with a field in it
C9_Witness ==
  /\ Returned
  /\ HasSchema(doc[1])
  /\ NoDirectives(doc[1])
  /\ config[1].ok
  /\ config[1].val.server = T_default
  /\ config[1].val.upstream = T_default
  /\ \E i \in 1..Len(config[1].val.graphql.types) :
       /\ config[1].val.graphql.types[i].value.fields # <<>>
       /\ AllAbsent(config[1].val.graphql.types[i].value.fields[1].value)

-----------------------------------------------------------------------------
(* C10 *)

\* C10: every entry of the type table has the kind of the definition that
\* produced it: variants present iff an enum, scalar iff a scalar, interface
\* iff an interface; an enum or scalar has no fields, and an object, interface
\* or input object has no variants and is no scalar
C10_TypeKindExclusivity ==
  (Returned /\ config[1].ok) =>
    LET types == config[1].val.graphql.types
    IN \A i \in 1..Len(types) :
         /\ types[i].key \in NamesOf(NonUnionsOf(doc[1]))
         /\ LET t == types[i].value
                tag == LastNamed(NonUnionsOf(doc[1]), types[i].key).kind.tag
            IN /\ (t.variants # None) <=> (tag = "Enum")
               /\ tag = "Enum" => (t.fields = <<>> /\ ~t.scalar /\ ~t.interface)
               /\ t.scalar <=> (tag = "Scalar")
               /\ tag = "Scalar" => (t.fields = <<>> /\ t.variants = None)
               /\ t.interface <=> (tag = "Interface")
               /\ tag \in {"Object", "Interface", "InputObject"} =>
                    (t.variants = None /\ ~t.scalar)

\* a type table of a scalar and an interface
C10_Witness ==
  /\ Returned
  /\ config[1].ok
  /\ \E i, j \in 1..Len(config[1].val.graphql.types) :
       /\ config[1].val.graphql.types[i].value.scalar
       /\ config[1].val.graphql.types[j].value.interface

-----------------------------------------------------------------------------
(* C6 *)

Permutations(n) == {p \in [1..n -> 1..n] : \A i, j \in 1..n : p[i] = p[j] => i = j}

Permuted(d, p) == ServiceDocument([i \in 1..Len(d.definitions) |-> d.definitions[p[i]]])

\* C6: when the object, interface, enum, input-object and scalar definitions
\* have N distinct names, a successful lowering yields a type table of exactly
\* N entries, keyed by those names in ascending order, and every permutation
\* of the definitions that lowers successfully yields the same table
C6_TotalityOfTypeTable ==
  (Returned /\ config[1].ok /\ DistinctNames(NonUnionsOf(doc[1]))) =>
    LET types == config[1].val.graphql.types
    IN /\ Len(types) = Len(NonUnionsOf(doc[1]))
       /\ Keys(types) = NamesOf(NonUnionsOf(doc[1]))
       /\ Ascending(types)
       /\ \A p \in Permutations(Len(doc[1].definitions)) :
            LET r == try_from(Permuted(doc[1], p))
            IN r.ok => r.val.graphql.types = types

\* two definitions given in descending order of name, one of them a scalar
C6_Witness ==
  /\ Returned
  /\ config[1].ok
  /\ DistinctNames(NonUnionsOf(doc[1]))
  /\ Len(NonUnionsOf(doc[1])) = 2
  /\ NonUnionsOf(doc[1])[1].name > NonUnionsOf(doc[1])[2].name
  /\ NonUnionsOf(doc[1])[1].kind.tag = "Scalar"
  /\ Len(config[1].val.graphql.types) = 2

-----------------------------------------------------------------------------
(* C4 *)

\* C4, as claimed: union names are keys of the union table only, other names
\* of the type table only, and no name is a key of both tables
C4_UnionSeparation ==
  (Returned /\ config[1].ok) =>
    LET g == config[1].val.graphql
    IN /\ Keys(g.unions) = NamesOf(UnionsOf(doc[1]))
       /\ Keys(g.types) = NamesOf(NonUnionsOf(doc[1]))
       /\ Keys(g.types) \cap Keys(g.unions) = {}

\* C4, amended: the union table holds exactly the union definitions (the last
\* of each name), the type table exactly the names of the other definitions,
\* and a name is a key of both tables exactly when the document holds a union
\* and a non-union definition of that name
C4_UnionSeparationAmended ==
  (Returned /\ config[1].ok) =>
    LET g == config[1].val.graphql
    IN /\ Keys(g.unions) = NamesOf(UnionsOf(doc[1]))
       /\ Keys(g.types) = NamesOf(NonUnionsOf(doc[1]))
       /\ \A i \in 1..Len(g.unions) :
            LET u == LastNamed(UnionsOf(doc[1]), g.unions[i].key)
            IN g.unions[i].value = [types |-> u.kind.members, doc |-> u.description]
       /\ Keys(g.types) \cap Keys(g.unions)
            = NamesOf(UnionsOf(doc[1])) \cap NamesOf(NonUnionsOf(doc[1]))

\* a union and a non-union definition of one name have been lowered
C4_Witness ==
  /\ Returned
  /\ config[1].ok
  /\ Keys(config[1].val.graphql.types) \cap Keys(config[1].val.graphql.unions) # {}

-----------------------------------------------------------------------------
(* C1 *)

\* the fields, as <<type definition, field>> positions, that carry an http
\* directive whose arguments are malformed
MalformedHttpFields(d) ==
  LET tds == TypeDefinitionsOf(d)
  IN UNION {{<<i, j>> : j \in {k \in 1..Len(FieldsOf(tds[i])) :
                                 \E dir \in Range(FieldsOf(tds[i])[k].directives) :
                                   dir.name = "http" /\ dir.arguments = Malformed}} :
            i \in 1..Len(tds)}

\* C1: with a schema definition (here one without directives, so that no
\* other step fails) and two fields whose http directive is malformed, the
\* lowering fails with at least two errors
C1_ErrorAccumulationAcrossFields ==
  (/\ Returned
   /\ HasSchema(doc[1])
   /\ FirstSchema(doc[1]).directives = <<>>
   /\ Cardinality(MalformedHttpFields(doc[1])) >= 2) =>
    (~config[1].ok /\ Len(config[1].errors) >= 2)

-----------------------------------------------------------------------------
(* C2 *)

\* C2: with a schema definition, when more than one of the steps server,
\* upstream and type lowering fails, the failure returned holds the errors of
\* every failing step
C2_ErrorAccumulationAcrossSteps ==
  (Returned /\ HasSchema(doc[1])) =>
    LET sd == FirstSchema(doc[1])
        steps == <<server(sd), upstream(sd), to_types(TypeDefinitionsOf(doc[1]))>>
        failing == {i \in 1..3 : ~steps[i].ok}
    IN Cardinality(failing) >= 2 =>
         /\ ~config[1].ok
         /\ \A i \in failing : Range(steps[i].errors) \subseteq Range(config[1].errors)

-----------------------------------------------------------------------------
(* C3 *)

DirectiveKinds == {"http", "modify", "inline", "unsafe", "groupBy", "const"}

\* the directive list holds a directive of one of the names with malformed arguments
CarriesMalformed(directives, names) ==
  \E dir \in Range(directives) : dir.name \in names /\ dir.arguments = Malformed

\* a field of the document, or an argument of one, carries a malformed
\* directive of a kind consumed there
HasMalformedDirective(d) ==
  \E td \in Range(TypeDefinitionsOf(d)) : \E fd \in Range(FieldsOf(td)) :
    \/ CarriesMalformed(fd.directives, DirectiveKinds)
    \/ /\ td.kind.tag \in {"Object", "Interface"}
       /\ \E arg \in Range(fd.arguments) : CarriesMalformed(arg.directives, {"modify"})

\* C3: a document in which a field or argument carries a malformed directive
\* never lowers to a successful Config
C3_InvalidDirectiveNeverDropped ==
  (Returned /\ HasMalformedDirective(doc[1])) => ~config[1].ok

-----------------------------------------------------------------------------
(* C5 *)

\* the directive-derived value of a lowered field, by directive name
Derived(f, name) ==
  CASE name = "http" -> f.http
    [] name = "modify" -> f.modify
    [] name = "inline" -> f.inline
    [] name = "unsafe" -> f.unsafe_operation
    [] name = "groupBy" -> f.group_by
    [] name = "const" -> f.const_field

\* C5: when the directive list of a field holds two or more well-formed
\* directives of one name, the value derived is decoded from the last of them
C5_LastSeenWins ==
  (Lowered /\ field[1].ok) =>
    \A name \in DirectiveKinds :
      LET same == SelectSeq(field_definition[1].directives, LAMBDA dir : dir.name = name)
      IN (Len(same) >= 2 /\ \A dir \in Range(same) : dir.arguments # Malformed) =>
           Derived(field[1].val, name) = Some(same[Len(same)].arguments)

====
